---- MODULE Spec2Model ----
(***************************************************************************)
(* Model of the dodobot serial bridge (dodobot_serial_bridge.cpp): the     *)
(* framed, checksummed, sequence-numbered packet protocol between the host *)
(* and the microcontroller, the readiness handshake and the command        *)
(* writers.                                                                *)
(*                                                                         *)
(* Characters are byte values (0..255); a std::string is a sequence of     *)
(* byte values.  Time is counted in ticks of TickMs milliseconds and only  *)
(* passes while the program polls or sleeps (computation is instantaneous).*)
(***************************************************************************)
EXTENDS Integers, Sequences, FiniteSets, TLC

(***************************************************************************)
(* Wire constants (dodobot_serial_bridge.h; echoed by logPacketErrorCode). *)
(***************************************************************************)
PACKET_START_0 == 18
PACKET_START_1 == 52
PACKET_STOP == 10
TAB == 9

(***************************************************************************)
(* Timing constants, in milliseconds.                                      *)
(***************************************************************************)
general_timeout == 5000
write_timeout == 1000
wait_timeout == 50

(***************************************************************************)
(* Bounds of the model.                                                    *)
(***************************************************************************)
\* Length of one clock tick in milliseconds: just over the re-probe interval,
\* so that a deadline of k seconds is seen expired at the k-th tick, the first
\* time the polling loop looks at the clock after it.
TickMs == 1001
\* number of frames / chunks the device sends in one run
MaxSends == 2
\* largest sequence number the device stamps on a frame
MaxSeq == 1
\* number of commands the outward callers issue in one run
MaxCmds == 1
\* most bytes waiting in the serial input buffer
MaxRx == 56

(***************************************************************************)
(* Text literals as byte sequences.                                        *)
(***************************************************************************)
s_ready == <<114, 101, 97, 100, 121>>
s_state == <<115, 116, 97, 116, 101>>
s_txrx == <<116, 120, 114, 120>>
s_enc == <<101, 110, 99>>
s_bump == <<98, 117, 109, 112>>
s_fsr == <<102, 115, 114>>
s_grip == <<103, 114, 105, 112>>
s_linear == <<108, 105, 110, 101, 97, 114>>
s_batt == <<98, 97, 116, 116>>
s_tilt == <<116, 105, 108, 116>>
s_probe == <<63>>
s_dodobot == <<100, 111, 100, 111, 98, 111, 116>>
s_setactive == <<60, 62>>
s_setreporting == <<91, 93>>
s_drive == <<100, 114, 105, 118, 101>>
s_tilter == <<116, 105, 108, 116, 101, 114>>
s_ks == <<107, 115>>

(***************************************************************************)
(* Library functions of the C++ standard library, as the code uses them.   *)
(***************************************************************************)
IsSpace(c) == c \in {9, 10, 11, 12, 13, 32}
IsDigit(c) == c >= 48 /\ c <= 57
IsHexDigit(c) == IsDigit(c) \/ (c >= 97 /\ c <= 102) \/ (c >= 65 /\ c <= 70)
HexVal(c) == IF IsDigit(c) THEN c - 48 ELSE IF c >= 97 THEN c - 87 ELSE c - 55

\* the number of characters at the head of s that are of the class: white
\* space, decimal digits, hex digits, or the digit 0
PrefixLen(s, class) ==
    LET Is(c) == IF class = "space" THEN IsSpace(c)
                 ELSE IF class = "digit" THEN IsDigit(c)
                 ELSE IF class = "hex" THEN IsHexDigit(c)
                 ELSE c = 48
        stops == {i \in 1..Len(s) : ~Is(s[i])}
    IN  IF stops = {} THEN Len(s)
        ELSE (CHOOSE i \in stops : \A j \in stops : i <= j) - 1

SkipSpace(s) == SubSeq(s, PrefixLen(s, "space") + 1, Len(s))

DigitPrefix(s) == SubSeq(s, 1, PrefixLen(s, "digit"))

HexPrefix(s) == SubSeq(s, 1, PrefixLen(s, "hex"))

\* the digits ds without their leading zeros (<<>> when they are all zeros)
Significant(ds) == SubSeq(ds, PrefixLen(ds, "zero") + 1, Len(ds))

\* the value of the decimal digits ds (at most 2147483647)
RECURSIVE DecValue(_)
DecValue(ds) ==
    IF ds = <<>> THEN 0 ELSE DecValue(SubSeq(ds, 1, Len(ds) - 1)) * 10 + (ds[Len(ds)] - 48)

\* the number written ds (no leading zeros) is greater than the one written
\* limit
TextAbove(ds, limit) ==
    \/ Len(ds) > Len(limit)
    \/ /\ Len(ds) = Len(limit)
       /\ \E i \in 1..Len(ds) : /\ ds[i] > limit[i]
                                /\ \A j \in 1..(i - 1) : ds[j] = limit[j]

\* A parse result: ok = FALSE stands for a thrown std::invalid_argument or
\* std::out_of_range.
Thrown == [ok |-> FALSE, val |-> 0]
Parsed(v) == [ok |-> TRUE, val |-> v]

\* The element of a set of one element.  The({e : x \in {v}}) is e with x
\* standing for the value of v: a local variable that is set once.
The(S) == CHOOSE x \in S : TRUE

\* std::stoi (base 10): leading white space, an optional sign, the longest run
\* of digits; text after the digits is ignored; std::invalid_argument without
\* a digit, std::out_of_range outside INT_MIN .. INT_MAX.
Stoi(s) ==
    LET t == SkipSpace(s)
        signed == t # <<>> /\ Head(t) \in {43, 45}
        neg == t # <<>> /\ Head(t) = 45
        ds == DigitPrefix(IF signed THEN Tail(t) ELSE t)
        sig == Significant(ds)
        \* INT_MAX = 2147483647 and -INT_MIN = 2147483648, as decimal text
        limit == <<50, 49, 52, 55, 52, 56, 51, 54, 52>> \o <<IF neg THEN 56 ELSE 55>>
        \* the negative value, built without passing through 2147483648
        negative == IF sig = <<>> THEN 0
                    ELSE (0 - DecValue(SubSeq(sig, 1, Len(sig) - 1))) * 10
                             - (sig[Len(sig)] - 48)
    IN  IF ds = <<>> THEN Thrown
        ELSE IF TextAbove(sig, limit) THEN Thrown
        ELSE Parsed(IF neg THEN negative ELSE DecValue(sig))

(***************************************************************************)
(* Integers of 64 bits: a bit pattern is four limbs of 16 bits, the least  *)
(* significant first.  An unsigned value of 32 bits has its two upper      *)
(* limbs 0; a signed value is in two's complement.                         *)
(***************************************************************************)
\* the natural number n (below 2^31) as a 64-bit pattern
Wide(n) == <<n % 65536, n \div 65536, 0, 0>>

\* w * k + c on limbs, the carry out of the last limb dropped
RECURSIVE WideMulAdd(_, _, _)
WideMulAdd(w, k, c) ==
    IF w = <<>> THEN <<>>
    ELSE LET v == Head(w) * k + c
         IN  <<v % 65536>> \o WideMulAdd(Tail(w), k, v \div 65536)

\* ++ on an unsigned long long
Incr(w) == WideMulAdd(w, 1, 1)

\* the value of the decimal digits ds, modulo 2^64
RECURSIVE WideDec(_, _)
WideDec(w, ds) ==
    IF ds = <<>> THEN w ELSE WideDec(WideMulAdd(w, 10, Head(ds) - 48), Tail(ds))

\* the cast (uint32_t) of an int
uint32_t(i) ==
    IF i >= 0 THEN Wide(i)
    ELSE LET j == (i + 2147483647) + 1
         IN  <<j % 65536, 32768 + (j \div 65536), 0, 0>>

\* std::stol (base 10, long of 64 bits): as std::stoi, std::out_of_range
\* outside LONG_MIN .. LONG_MAX; the value is a 64-bit pattern
Stol(s) ==
    LET t == SkipSpace(s)
        signed == t # <<>> /\ Head(t) \in {43, 45}
        neg == t # <<>> /\ Head(t) = 45
        ds == DigitPrefix(IF signed THEN Tail(t) ELSE t)
        sig == Significant(ds)
        mag == WideDec(Wide(0), sig)
        \* LONG_MAX = 9223372036854775807 and -LONG_MIN = 9223372036854775808
        limit == <<57, 50, 50, 51, 51, 55, 50, 48, 51, 54, 56, 53, 52, 55, 55, 53, 56, 48>>
                     \o <<IF neg THEN 56 ELSE 55>>
        \* unary minus in two's complement
        negative == Incr([i \in 1..Len(mag) |-> 65535 - mag[i]])
    IN  IF ds = <<>> THEN Thrown
        ELSE IF TextAbove(sig, limit) THEN Thrown
        ELSE Parsed(IF neg THEN negative ELSE mag)

(***************************************************************************)
(* Natural numbers of any size, for the exact arithmetic of strtof: limbs  *)
(* of 16 bits, the least significant first, no zero limb at the top (0 is  *)
(* <<>>).                                                                  *)
(***************************************************************************)
\* x * k + c
RECURSIVE BigMulAdd(_, _, _)
BigMulAdd(x, k, c) ==
    IF x = <<>> THEN (IF c = 0 THEN <<>> ELSE <<c>>)
    ELSE LET v == Head(x) * k + c
         IN  <<v % 65536>> \o BigMulAdd(Tail(x), k, v \div 65536)

BigDouble(x) == BigMulAdd(x, 2, 0)

\* x * 2^n
BigShift(x, n) ==
    IF x = <<>> THEN <<>>
    ELSE [i \in 1..(n \div 16) |-> 0] \o BigMulAdd(x, 2 ^ (n % 16), 0)

\* x * 10^n
RECURSIVE BigTimes10(_, _)
BigTimes10(x, n) ==
    IF n <= 0 THEN x
    ELSE IF n < 4 THEN BigMulAdd(x, 10 ^ n, 0)
    ELSE BigTimes10(BigMulAdd(x, 10000, 0), n - 4)

\* the value of the hex digits hs, modulo 2^16
RECURSIVE HexValue(_)
HexValue(hs) ==
    IF hs = <<>> THEN 0
    ELSE (HexValue(SubSeq(hs, 1, Len(hs) - 1)) * 16 + HexVal(hs[Len(hs)])) % 65536

\* the value of the digits ds in base k (10 or 16), appended to x, three
\* digits at a time
RECURSIVE BigText(_, _, _)
BigText(x, ds, k) ==
    LET Value(d) == IF k = 10 THEN DecValue(d) ELSE HexValue(d)
    IN  IF Len(ds) <= 3 THEN BigMulAdd(x, k ^ Len(ds), Value(ds))
        ELSE BigText(BigMulAdd(x, k ^ 3, Value(SubSeq(ds, 1, 3))),
                     SubSeq(ds, 4, Len(ds)), k)

\* the number of bits of x
BigBits(x) ==
    IF x = <<>> THEN 0
    ELSE 16 * (Len(x) - 1) + Cardinality({i \in 0..15 : 2 ^ i <= x[Len(x)]})

\* x < y
RECURSIVE BigLess(_, _)
BigLess(x, y) ==
    IF Len(x) # Len(y) THEN Len(x) < Len(y)
    ELSE IF x = <<>> THEN FALSE
    ELSE IF x[Len(x)] # y[Len(y)] THEN x[Len(x)] < y[Len(y)]
    ELSE BigLess(SubSeq(x, 1, Len(x) - 1), SubSeq(y, 1, Len(y) - 1))

RECURSIVE BigSubLimbs(_, _, _)
BigSubLimbs(x, y, borrow) ==
    IF x = <<>> THEN <<>>
    ELSE LET v == Head(x) - (IF y = <<>> THEN 0 ELSE Head(y)) - borrow
         IN  <<IF v < 0 THEN v + 65536 ELSE v>>
                 \o BigSubLimbs(Tail(x), IF y = <<>> THEN <<>> ELSE Tail(y),
                                IF v < 0 THEN 1 ELSE 0)

\* x - y, for x >= y
BigSub(x, y) ==
    LET d == BigSubLimbs(x, y, 0)
        used == {i \in 1..Len(d) : d[i] # 0}
    IN  IF used = {} THEN <<>>
        ELSE SubSeq(d, 1, CHOOSE i \in used : \A j \in used : j <= i)

(***************************************************************************)
(* float.  A value is [cls, neg, m, e]: cls "num" stands for m * 2^e (m    *)
(* odd, or m = 0 and e = 0), negated when neg; cls "inf" and "nan" are the *)
(* infinities and the NaNs (the payload of a NaN is not kept).             *)
(***************************************************************************)
Float(cls, neg, m, e) == [cls |-> cls, neg |-> neg, m |-> m, e |-> e]

\* m * 2^e with the factors 2 of m moved into e
RECURSIVE FloatOf(_, _, _)
FloatOf(neg, m, e) ==
    IF m = 0 THEN Float("num", neg, 0, 0)
    ELSE IF m % 2 = 0 THEN FloatOf(neg, m \div 2, e + 1)
    ELSE Float("num", neg, m, e)

\* a / t * 2^q brought to a < t, and to 2a >= t unless that takes q under
\* the exponent of the subnormal numbers
RECURSIVE Scale(_, _, _)
Scale(a, t, q) ==
    IF ~BigLess(a, t) \/ q < 0 - 125 THEN Scale(a, BigDouble(t), q + 1)
    ELSE IF q > 0 - 125 /\ BigLess(BigDouble(a), t) THEN Scale(BigDouble(a), t, q - 1)
    ELSE [a |-> a, t |-> t, q |-> q]

\* i more bits of the quotient r / t (r < t): the bits after m, and the rest
RECURSIVE Quotient(_, _, _, _)
Quotient(r, t, m, i) ==
    IF i = 0 THEN [m |-> m, r |-> r]
    ELSE LET r2 == BigDouble(r)
         IN  IF BigLess(r2, t) THEN Quotient(r2, t, 2 * m, i - 1)
             ELSE Quotient(BigSub(r2, t), t, 2 * m + 1, i - 1)

\* The float nearest to a / b * 2^q0 (a > 0; ties to the even mantissa), as
\* strtof returns it.  ERANGE, which makes std::stof throw, is set when the
\* result overflows, or is inexact and tiny (under 2^-126 after rounding to
\* 24 bits).  In the tiny range strtof first cuts the value to its 24 leading
\* bits and forgets the bit after them: a value with that bit alone under
\* the subnormal precision counts as exact, and its cut-off value is returned,
\* unless digits of the text were left unread (cut).
RoundToFloat(neg, a, b, q0, cut) ==
    \* q: the binary exponent, not under that of the subnormal numbers;
    \* s: the fraction scaled to it; d: its first 24 quotient bits and the rest
    The({ The({ The({
        LET twice == BigDouble(d.r)
            up == BigLess(s.t, twice) \/ (twice = s.t /\ d.m % 2 = 1)
            m == IF up THEN d.m + 1 ELSE d.m
            e == s.q - 24
            overflow == e > 104 \/ (e = 104 /\ m = 16777216)
            tiny == /\ BigLess(BigDouble(s.a), s.t)
                    /\ BigLess(BigShift(s.a, 26), BigSub(BigShift(s.t, 25), s.t))
            lead == Cardinality({i \in 0..23 : 2 ^ i <= d.m})
            dropped == ~cut /\ d.m > 0 /\ BigShift(d.r, 25 - lead) = s.t
        IN  IF overflow \/ (tiny /\ d.r # <<>> /\ ~dropped) THEN Thrown
            ELSE Parsed(FloatOf(neg, m, e))
        : d \in {Quotient(s.a, s.t, 0, 24)} })
        : s \in {Scale(IF q0 > q THEN BigShift(a, q0 - q) ELSE a,
                       IF q0 < q THEN BigShift(b, q - q0) ELSE b, q)} })
        : q \in {LET k == q0 + BigBits(a) - BigBits(b) + 1
                 IN  IF k < 0 - 125 THEN 0 - 125 ELSE k} })

ToLower(c) == IF c >= 65 /\ c <= 90 THEN c + 32 ELSE c

\* The exponent part of a number: the letter mark (in either case), an
\* optional sign and at least one digit; without a digit there is no
\* exponent.  huge: the exponent has more than 8 significant digits.
Exponent(r, mark) ==
    LET marked == r # <<>> /\ ToLower(Head(r)) = mark
        r1 == IF marked THEN Tail(r) ELSE <<>>
        signed == r1 # <<>> /\ Head(r1) \in {43, 45}
        ds == DigitPrefix(IF signed THEN Tail(r1) ELSE r1)
        sig == Significant(ds)
    IN  [neg |-> r1 # <<>> /\ Head(r1) = 45,
         huge |-> Len(sig) > 8,
         val |-> IF Len(sig) > 8 THEN 0 ELSE DecValue(sig)]

\* a decimal number: digits with an optional point, at least one digit, and
\* an optional exponent e.  Of a number under 1, strtof reads the digits of
\* the first 151 places after the point (fewer when the number is not small:
\* 24 bits after its leading bit); any digits after them only count as
\* "something more follows".
DecimalFloat(neg, u) ==
    \* ip, fp: the digits before and after the point; x: the exponent
    The({ The({ The({
        LET sig == Significant(ip \o fp)
            e10 == (IF x.neg THEN 0 - x.val ELSE x.val) - Len(fp)
            top == Len(sig) + e10
            zeros == Cardinality({i \in 1..Len(sig) :
                                     \A j \in i..Len(sig) : sig[j] = 48})
            need == ((1 - top) * 10) \div 3 + 25
            cut == top <= 0 /\ 0 - e10 - zeros > (IF need > 151 THEN 151 ELSE need)
        IN  IF sig = <<>> THEN Parsed(Float("num", neg, 0, 0))
            ELSE IF x.huge \/ top > 39 \/ top < 0 - 46 THEN Thrown
            ELSE RoundToFloat(neg, BigTimes10(BigText(<<>>, sig, 10), e10),
                              BigTimes10(<<1>>, 0 - e10), 0, cut)
        : x \in {LET r == SubSeq(u, Len(ip) + 1, Len(u))
                     point == r # <<>> /\ Head(r) = 46
                 IN  Exponent(SubSeq(r, (IF point THEN 2 ELSE 1) + Len(fp), Len(r)),
                              101)} })
        : fp \in {LET r == SubSeq(u, Len(ip) + 1, Len(u))
                  IN  IF r # <<>> /\ Head(r) = 46 THEN DigitPrefix(Tail(r)) ELSE <<>>} })
        : ip \in {DigitPrefix(u)} })

\* a hexadecimal number, after its 0x: hex digits with an optional point and
\* an optional binary exponent p; without a hex digit only the 0 is taken
HexFloat(neg, u) ==
    \* ip, fp: the digits before and after the point; x: the exponent
    The({ The({ The({
        LET sig == Significant(ip \o fp)
            e2 == (IF x.neg THEN 0 - x.val ELSE x.val) - 4 * Len(fp)
        IN  IF (ip = <<>> /\ fp = <<>>) \/ sig = <<>>
            THEN Parsed(Float("num", neg, 0, 0))
            ELSE IF \/ x.huge
                    \/ e2 + 4 * (Len(sig) - 1) >= 128
                    \/ e2 + 4 * Len(sig) <= 0 - 150
            THEN Thrown
            ELSE RoundToFloat(neg, BigText(<<>>, sig, 16), <<1>>, e2, FALSE)
        : x \in {LET r == SubSeq(u, Len(ip) + 1, Len(u))
                     point == r # <<>> /\ Head(r) = 46
                 IN  Exponent(SubSeq(r, (IF point THEN 2 ELSE 1) + Len(fp), Len(r)),
                              112)} })
        : fp \in {LET r == SubSeq(u, Len(ip) + 1, Len(u))
                  IN  IF r # <<>> /\ Head(r) = 46 THEN HexPrefix(Tail(r)) ELSE <<>>} })
        : ip \in {HexPrefix(u)} })

\* std::stof (strtof): leading white space, an optional sign, then a decimal
\* or hexadecimal number, or inf, or nan; text after it is ignored;
\* std::invalid_argument when none of them is there, std::out_of_range on
\* ERANGE.
Stof(s) ==
    The({
        LET signed == t # <<>> /\ Head(t) \in {43, 45}
            neg == t # <<>> /\ Head(t) = 45
            u == IF signed THEN Tail(t) ELSE t
            number == \/ u # <<>> /\ IsDigit(u[1])
                      \/ Len(u) >= 2 /\ u[1] = 46 /\ IsDigit(u[2])
            hex == Len(u) >= 2 /\ u[1] = 48 /\ ToLower(u[2]) = 120
            word == [i \in 1..(IF Len(u) < 3 THEN Len(u) ELSE 3) |-> ToLower(u[i])]
        IN  IF number /\ hex THEN HexFloat(neg, SubSeq(u, 3, Len(u)))
            ELSE IF number THEN DecimalFloat(neg, u)
            ELSE IF word = <<105, 110, 102>> THEN Parsed(Float("inf", neg, 0, 0))
            ELSE IF word = <<110, 97, 110>> THEN Parsed(Float("nan", neg, 0, 0))
            ELSE Thrown
        : t \in {SkipSpace(s)} })

\* std::stoul(text, nullptr, 16) stored in a uint16_t: leading white space, an
\* optional sign, an optional 0x prefix, the longest run of hex digits;
\* std::out_of_range above ULONG_MAX (16 hex digits).
StoulHex16(s) ==
    LET t == SkipSpace(s)
        signed == t # <<>> /\ Head(t) \in {43, 45}
        neg == t # <<>> /\ Head(t) = 45
        u == IF signed THEN Tail(t) ELSE t
        prefixed == /\ Len(u) >= 3 /\ u[1] = 48 /\ u[2] \in {120, 88}
                    /\ IsHexDigit(u[3])
        hs == HexPrefix(IF prefixed THEN SubSeq(u, 3, Len(u)) ELSE u)
        v == HexValue(hs)
    IN  IF hs = <<>> \/ Len(Significant(hs)) > 16 THEN Thrown
        ELSE Parsed(IF neg THEN (65536 - v) % 65536 ELSE v)

\* operator<< of an integer in decimal
RECURSIVE NatText(_)
NatText(n) == IF n < 10 THEN <<48 + n>> ELSE NatText(n \div 10) \o <<48 + (n % 10)>>

IntText(i) == IF i < 0 THEN <<45>> \o NatText(0 - i) ELSE NatText(i)

\* operator<< of a double under std::fixed << setprecision(4); the value is
\* given in ten-thousandths
FixedText(f) ==
    LET mag == IF f < 0 THEN 0 - f ELSE f
        frac == NatText(10000 + (mag % 10000))
    IN  (IF f < 0 THEN <<45>> ELSE <<>>) \o NatText(mag \div 10000) \o <<46>>
            \o SubSeq(frac, 2, 5)

\* operator<< of an int under std::hex (lower case, no padding)
RECURSIVE HexText(_)
HexText(n) ==
    LET d == n % 16
        c == IF d < 10 THEN 48 + d ELSE 87 + d
    IN  IF n < 16 THEN <<c>> ELSE HexText(n \div 16) \o <<c>>

\* the uint8_t sum of the characters of s
RECURSIVE ByteSum(_)
ByteSum(s) == IF s = <<>> THEN 0 ELSE (Head(s) + ByteSum(Tail(s))) % 256

\* std::string(const char*): the characters before the first NUL
RECURSIVE CString(_)
CString(s) == IF s = <<>> \/ Head(s) = 0 THEN <<>> ELSE <<Head(s)>> \o CString(Tail(s))

\* std::string::find(c, from) on 0-based positions; -1 stands for npos
RECURSIVE Find(_, _, _)
Find(s, c, from) ==
    IF from >= Len(s) THEN 0 - 1
    ELSE IF s[from + 1] = c THEN from
    ELSE Find(s, c, from + 1)

\* std::string::substr(pos, count) on 0-based positions
Substr(s, pos, count) ==
    SubSeq(s, pos + 1, IF pos + count > Len(s) THEN Len(s) ELSE pos + count)

(***************************************************************************)
(* State.                                                                  *)
(*   pc, caller        position of the single thread, and which loop       *)
(*                     called readSerial ("checkReady" or "loop");         *)
(*                     "sleep_probe", "sleep_reprobe", "sleep_active",     *)
(*                     "sleep_reporting" and "ks1".."ks7": in the sleep    *)
(*                     that ends the writeSerial named (line 393)          *)
(*   rosOk             ros::ok()                                           *)
(*   exit_code         run()'s exit code                                   *)
(*   portOpen          whether _serialRef is open                          *)
(*   handshake         how checkReady went: "none", "probing", "ready",    *)
(*                     "timed_out" (ReadyTimeoutException), "cancelled"    *)
(*                     (ros::ok() false), "io_error" (a serial write       *)
(*                     threw), "exception" (a decode exception left it)    *)
(*   serialIn          bytes waiting in the serial port (available())      *)
(*   serialOut         packets handed to _serialRef.write, in order        *)
(*   tok               the tokenizer fields: buf = _serialBuffer,          *)
(*                     idx = _serialBufferIndex, seg = _currentBufferSegment,*)
(*                     num = _currentSegmentNum                            *)
(*   recvCharBuffer    the bytes stored so far (its length: _recvCharIndex)*)
(*   readPacketNum, writePacketNum, readyState, robotState                 *)
(*   clock             offsetTimeMs and whether setStartTime has run       *)
(*   published         categories handed to a publisher so far, and whether*)
(*                     getDeviceTime ran before setStartTime               *)
(*   since_begin, since_write, since_wait                                  *)
(*                     ticks elapsed since begin_time, write_time and      *)
(*                     wait_time were taken (ros::Time::now() - x)         *)
(*   c2                waitForPacketStart's local c2                       *)
(* History variables (not read by the program):                            *)
(*   last              the last readSerial call: the counter at entry, the *)
(*                     frame, the way it returned                          *)
(*   writeCalls        number of writeSerial calls entered                 *)
(*   lastCmd           the last command issued by an outward caller: its   *)
(*                     kind, the flags, the write counter (n) and the      *)
(*                     number of packets written (len) when it was issued, *)
(*                     and whether it called writeSerial                   *)
(*   sends, cmds       number of device transmissions / commands so far    *)
(***************************************************************************)
VARIABLES pc, caller, rosOk, exit_code, portOpen, handshake, serialIn, serialOut, tok,
          recvCharBuffer, readPacketNum, writePacketNum, readyState, robotState,
          clock, published, since_begin, since_write, since_wait, c2,
          last, writeCalls, lastCmd, sends, cmds

vars == <<pc, caller, rosOk, exit_code, portOpen, handshake, serialIn, serialOut, tok,
          recvCharBuffer, readPacketNum, writePacketNum, readyState, robotState,
          clock, published, since_begin, since_write, since_wait, c2,
          last, writeCalls, lastCmd, sends, cmds>>

(***************************************************************************)
(* Segment tokenizer.                                                      *)
(***************************************************************************)
getNextSegment(t) ==
    IF t.idx >= Len(t.buf) THEN [ok |-> FALSE, t |-> [t EXCEPT !.num = 0 - 1]]
    ELSE LET separator == Find(t.buf, TAB, t.idx)
         IN  IF separator = 0 - 1
             THEN [ok |-> TRUE,
                   t |-> [t EXCEPT !.seg = Substr(t.buf, t.idx, Len(t.buf)),
                                   !.idx = Len(t.buf),
                                   !.num = t.num + 1]]
             ELSE [ok |-> TRUE,
                   t |-> [t EXCEPT !.seg = Substr(t.buf, t.idx, separator - t.idx),
                                   !.idx = separator + 1,
                                   !.num = t.num + 1]]

\* The CHECK_SEGMENT macro: take the next segment, or log and return from the
\* decode routine.
CHECK_SEGMENT(t) == getNextSegment(t)

(***************************************************************************)
(* Packet dispatcher.  A decode state d holds the fields a decode routine  *)
(* can change: [tok, readyState, robotState, clock, published].            *)
(***************************************************************************)
\* The conversions applied to the fields of a category, in wire order:
\* "i" std::stoi, "l" std::stol, "f" std::stof, "s" the text itself, "n" a
\* segment that is taken and not converted.
FieldKinds(category) ==
    IF category = s_txrx THEN <<"l", "i">>
    ELSE IF category = s_state THEN <<"i", "i", "i", "i", "f">>
    ELSE IF category = s_enc THEN <<"l", "l", "l", "f", "f">>
    ELSE IF category = s_bump THEN <<"l", "l", "l">>
    ELSE IF category = s_fsr THEN <<"l", "i", "i">>
    ELSE IF category = s_grip THEN <<"l", "i">>
    ELSE IF category = s_linear THEN <<"l", "i", "i", "i", "i">>
    ELSE IF category = s_batt THEN <<"l", "f", "n", "f">>
    ELSE IF category = s_tilt THEN <<"l", "i">>
    ELSE IF category = s_ready THEN <<"i", "s">>
    ELSE <<>>

\* The categories whose first field is converted with getDeviceTime and whose
\* record is published
Stamped == {s_enc, s_bump, s_fsr, s_grip, s_linear, s_batt, s_tilt}

Convert(kind, seg) ==
    IF kind = "i" THEN Stoi(seg)
    ELSE IF kind = "l" THEN Stol(seg)
    ELSE IF kind = "f" THEN Stof(seg)
    ELSE Parsed(0)

\* The assignment that follows the k-th CHECK_SEGMENT of a category
Assign(d, category, k, v, seg) ==
    IF category = s_state THEN
        IF k = 1 THEN [d EXCEPT !.robotState.time_ms = uint32_t(v)]
        ELSE IF k = 2 THEN [d EXCEPT !.robotState.is_active = (v # 0)]
        ELSE IF k = 3 THEN [d EXCEPT !.robotState.battery_ok = (v # 0)]
        ELSE IF k = 4 THEN [d EXCEPT !.robotState.motors_active = (v # 0)]
        ELSE [d EXCEPT !.robotState.loop_rate = v]
    ELSE IF category = s_ready THEN
        IF k = 1 THEN [d EXCEPT !.readyState.time_ms = uint32_t(v)]
        ELSE [d EXCEPT !.readyState.robot_name = seg]
    ELSE IF category \in Stamped /\ k = 1 THEN
        [d EXCEPT !.published.early = d.published.early \/ ~d.clock.refSet]
    ELSE d

\* Finish in which a complete state frame also clears is_ready
Finish_StateClearsReady(d, category) ==
    IF category = s_ready THEN [d EXCEPT !.readyState.is_ready = TRUE]
    ELSE IF category = s_state THEN [d EXCEPT !.readyState.is_ready = FALSE]
    ELSE IF category \in Stamped
    THEN [d EXCEPT !.published.cats = d.published.cats \cup {category}]
    ELSE d

\* What follows the last field of a category
Finish(d, category) ==
    IF category = s_ready THEN [d EXCEPT !.readyState.is_ready = TRUE]
    ELSE IF category \in Stamped
    THEN [d EXCEPT !.published.cats = d.published.cats \cup {category}]
    ELSE d

\* Fields k.. of a category.  how = "done" (all fields decoded), "missing"
\* (a CHECK_SEGMENT returned) or "throw" (a conversion threw).
RECURSIVE DecodeFrom(_, _, _)
DecodeFrom(d, category, k) ==
    LET kinds == FieldKinds(category)
    IN  IF k > Len(kinds) THEN [how |-> "done", d |-> Finish(d, category)]
        ELSE \* g: the outcome of CHECK_SEGMENT; c: the outcome of the conversion
             The({
                 IF ~g.ok THEN [how |-> "missing", d |-> [d EXCEPT !.tok = g.t]]
                 ELSE The({
                     IF ~c.ok THEN [how |-> "throw", d |-> [d EXCEPT !.tok = g.t]]
                     ELSE DecodeFrom(Assign([d EXCEPT !.tok = g.t], category, k, c.val,
                                            g.t.seg),
                                     category, k + 1)
                     : c \in {Convert(kinds[k], g.t.seg)} })
                 : g \in {CHECK_SEGMENT(d.tok)} })

processSerialPacket(d, category) == DecodeFrom(d, category, 1)

(***************************************************************************)
(* Packet validator: readSerial from the terminating store on.  recv is    *)
(* the content of _recvCharBuffer, n the read counter.  The result gives   *)
(* the way readSerial leaves (how), the decode state and the counter.      *)
(*   "short"          fewer than 5 characters                              *)
(*   "cksum_parse"    std::stoul threw on the checksum characters          *)
(*   "cksum_mismatch" the checksums differ                                 *)
(*   "noseq"          no packet number segment                             *)
(*   "seq_throw"      std::stoi threw on the packet number: the exception  *)
(*                    leaves readSerial                                    *)
(*   "nocat"          no category segment                                  *)
(*   "dispatch_throw" processSerialPacket threw, caught in readSerial      *)
(*   "done"           dispatched, readSerial returns true                  *)
(***************************************************************************)
\* Validate in which a frame of fewer than 5 characters takes no sequence slot
Validate_ShortKeepsCounter(d, recv, n) ==
    LET buffer == CString(recv)
        t0 == [d.tok EXCEPT !.buf = buffer]
        t1 == [t0 EXCEPT !.idx = 0]
        calc_checksum == ByteSum(SubSeq(buffer, 1, Len(buffer) - 2))
        Res(how, tk, cnt, seq, cat) ==
            [how |-> how, d |-> [d EXCEPT !.tok = tk], n |-> cnt, seq |-> seq,
             category |-> cat]
    IN  IF Len(buffer) < 5 THEN Res("short", t0, n, <<>>, <<>>)
        ELSE The({
          IF ~recv_checksum.ok THEN Res("cksum_parse", t1, n, <<>>, <<>>)
          ELSE IF calc_checksum # recv_checksum.val
          THEN Res("cksum_mismatch", t1, Incr(n), <<>>, <<>>)
          ELSE The({
            IF ~g1.ok THEN Res("noseq", g1.t, Incr(n), <<>>, <<>>)
            ELSE The({
              IF ~num.ok THEN Res("seq_throw", g1.t, n, <<>>, <<>>)
              ELSE The({
                LET recv_packet_num == uint32_t(num.val)
                    n1 == IF recv_packet_num # n THEN recv_packet_num ELSE n
                    category == g2.t.seg
                    t3 == [g2.t EXCEPT !.buf = Substr(buffer, 0, Len(buffer) - 2)]
                IN  IF ~g2.ok THEN Res("nocat", g2.t, Incr(n1), recv_packet_num, <<>>)
                    ELSE The({
                      IF p.how = "throw"
                      THEN [how |-> "dispatch_throw", d |-> p.d, n |-> n1,
                            seq |-> recv_packet_num, category |-> category]
                      ELSE [how |-> "done", d |-> p.d, n |-> Incr(n1),
                            seq |-> recv_packet_num, category |-> category]
                      : p \in {processSerialPacket([d EXCEPT !.tok = t3], category)} })
                : g2 \in {getNextSegment(g1.t)} })
              : num \in {Stoi(g1.t.seg)} })
            : g1 \in {getNextSegment(t1)} })
          : recv_checksum \in {StoulHex16(Substr(buffer, Len(buffer) - 2, 2))} })

Validate(d, recv, n) ==
    LET buffer == CString(recv)
        t0 == [d.tok EXCEPT !.buf = buffer]
        t1 == [t0 EXCEPT !.idx = 0]
        calc_checksum == ByteSum(SubSeq(buffer, 1, Len(buffer) - 2))
        Res(how, tk, cnt, seq, cat) ==
            [how |-> how, d |-> [d EXCEPT !.tok = tk], n |-> cnt, seq |-> seq,
             category |-> cat]
    IN  IF Len(buffer) < 5 THEN Res("short", t0, Incr(n), <<>>, <<>>)
        ELSE The({
          IF ~recv_checksum.ok THEN Res("cksum_parse", t1, n, <<>>, <<>>)
          ELSE IF calc_checksum # recv_checksum.val
          THEN Res("cksum_mismatch", t1, Incr(n), <<>>, <<>>)
          ELSE The({
            IF ~g1.ok THEN Res("noseq", g1.t, Incr(n), <<>>, <<>>)
            ELSE The({
              IF ~num.ok THEN Res("seq_throw", g1.t, n, <<>>, <<>>)
              ELSE The({
                LET recv_packet_num == uint32_t(num.val)
                    n1 == IF recv_packet_num # n THEN recv_packet_num ELSE n
                    category == g2.t.seg
                    t3 == [g2.t EXCEPT !.buf = Substr(buffer, 0, Len(buffer) - 2)]
                IN  IF ~g2.ok THEN Res("nocat", g2.t, Incr(n1), recv_packet_num, <<>>)
                    ELSE The({
                      IF p.how = "throw"
                      THEN [how |-> "dispatch_throw", d |-> p.d, n |-> n1,
                            seq |-> recv_packet_num, category |-> category]
                      ELSE [how |-> "done", d |-> p.d, n |-> Incr(n1),
                            seq |-> recv_packet_num, category |-> category]
                      : p \in {processSerialPacket([d EXCEPT !.tok = t3], category)} })
                : g2 \in {getNextSegment(g1.t)} })
              : num \in {Stoi(g1.t.seg)} })
            : g1 \in {getNextSegment(t1)} })
          : recv_checksum \in {StoulHex16(Substr(buffer, Len(buffer) - 2, 2))} })

(***************************************************************************)
(* Frame encoder.  An argument is [tag, num, text]: tag "d" or "u" with an *)
(* integer num, "f" with num in ten-thousandths, "s" with a text.          *)
(***************************************************************************)
ArgText(a) ==
    IF a.tag \in {"d", "u"} THEN IntText(a.num)
    ELSE IF a.tag = "s" THEN a.text
    ELSE IF a.tag = "f" THEN FixedText(a.num)
    ELSE <<>>

RECURSIVE ArgsText(_)
ArgsText(args) ==
    IF args = <<>> THEN <<>> ELSE <<TAB>> \o ArgText(Head(args)) \o ArgsText(Tail(args))

\* The packet writeSerial builds when the write counter is n
Packet(n, name, args) ==
    LET body == NatText(n) \o <<TAB>> \o name \o ArgsText(args)
        calc_checksum == ByteSum(body)
    IN  <<PACKET_START_0, PACKET_START_1>> \o body
            \o (IF calc_checksum < 16 THEN <<48>> ELSE <<>>) \o HexText(calc_checksum)
            \o <<PACKET_STOP>>

\* The outcomes of _serialRef.write: it returns ("ok": the packet is written,
\* or the write timed out after fewer bytes), or it throws ("throw": the port
\* is not open, or an I/O error).
TxOutcomes(open) == IF open THEN {"ok", "throw"} ELSE {"throw"}

\* A write state w is [out, n, calls, thrown].  Once a write has thrown the
\* exception is propagating and the later calls of the same handler do not run.
writeSerial(w, name, args, o) ==
    IF w.thrown THEN w
    ELSE IF o = "throw" THEN [w EXCEPT !.calls = w.calls + 1, !.thrown = TRUE]
    ELSE [w EXCEPT !.out = Append(w.out, Packet(w.n, name, args)),
                   !.n = w.n + 1,
                   !.calls = w.calls + 1]

WriteState == [out |-> serialOut, n |-> writePacketNum, calls |-> writeCalls,
               thrown |-> FALSE]

(***************************************************************************)
(* Command writers.  Each takes a write state and the outcome o of the     *)
(* transmission it may make.                                               *)
(***************************************************************************)
\* motorsReady without the motors_active flag
motorsReady_IgnoresMotors == readyState.is_ready /\ robotState.is_active

motorsReady ==
    readyState.is_ready /\ robotState.is_active /\ robotState.motors_active

robotReady == readyState.is_ready

ArgD(v) == [tag |-> "d", num |-> v, text |-> <<>>]
ArgF(v) == [tag |-> "f", num |-> v, text |-> <<>>]
ArgS(v) == [tag |-> "s", num |-> 0, text |-> v]

writeDriveChassis(w, speedA, speedB, o) ==
    IF ~motorsReady THEN w
    ELSE writeSerial(w, s_drive, <<ArgF(speedA), ArgF(speedB)>>, o)

writeTilter(w, command, position, o) ==
    IF ~motorsReady THEN w
    ELSE IF command <= 2 THEN writeSerial(w, s_tilter, <<ArgD(command)>>, o)
    ELSE writeSerial(w, s_tilter, <<ArgD(command), ArgD(position)>>, o)

writeGripper(w, command, force_threshold, o) ==
    IF ~motorsReady THEN w
    ELSE IF command = 0 THEN writeSerial(w, s_grip, <<ArgD(command)>>, o)
    ELSE writeSerial(w, s_grip, <<ArgD(command), ArgD(force_threshold)>>, o)

\* linearCallback: writes the (never assigned) command fields of linear_msg
writeLinear(w, o) == writeSerial(w, s_linear, <<ArgD(0), ArgD(0)>>, o)

\* writeK up to the sleep of its first write (569): the guard and the write of
\* coefficient 0
writeK(w, k, o) ==
    IF ~robotReady THEN w ELSE writeSerial(w, s_ks, <<ArgD(0), ArgF(k[1])>>, o)

set_pid(w, k, o) == IF ~robotReady THEN w ELSE writeK(w, k, o)

setActive(w, state, o) == writeSerial(w, s_setactive, <<ArgD(IF state THEN 1 ELSE 0)>>, o)

setReporting(w, state, o) ==
    writeSerial(w, s_setreporting, <<ArgD(IF state THEN 1 ELSE 0)>>, o)

(***************************************************************************)
(* Frame receiver: the start search of waitForPacketStart over the bytes   *)
(* that are available.  res = "start" (return true), "false" (the device   *)
(* message branch, return false) or "starve" (fewer than 2 bytes left: the *)
(* loop polls).                                                            *)
(***************************************************************************)
\* Scan that takes any byte after a first-marker byte as the second marker
RECURSIVE Scan_AnySecondByte(_, _)
Scan_AnySecondByte(rx, prev_c2) ==
    IF Len(rx) < 2 THEN [res |-> "starve", rest |-> rx, c2 |-> prev_c2]
    ELSE LET c1 == Head(rx)
         IN  IF c1 = PACKET_START_0
             THEN [res |-> "start", rest |-> SubSeq(rx, 3, Len(rx)), c2 |-> rx[2]]
             ELSE IF c1 = PACKET_STOP \/ prev_c2 = PACKET_STOP
             THEN [res |-> "false", rest |-> Tail(rx), c2 |-> prev_c2]
             ELSE Scan_AnySecondByte(Tail(rx), prev_c2)

RECURSIVE Scan(_, _)
Scan(rx, prev_c2) ==
    IF Len(rx) < 2 THEN [res |-> "starve", rest |-> rx, c2 |-> prev_c2]
    ELSE LET c1 == Head(rx)
         IN  IF c1 = PACKET_START_0
             THEN IF rx[2] = PACKET_START_1
                  THEN [res |-> "start", rest |-> SubSeq(rx, 3, Len(rx)), c2 |-> rx[2]]
                  ELSE Scan(SubSeq(rx, 3, Len(rx)), rx[2])
             ELSE IF c1 = PACKET_STOP \/ prev_c2 = PACKET_STOP
             THEN [res |-> "false", rest |-> Tail(rx), c2 |-> prev_c2]
             ELSE Scan(Tail(rx), prev_c2)

\* The values the uninitialized local c2 may hold when waitForPacketStart
\* starts: the stop byte, or anything else
C2Garbage == {PACKET_STOP, 0}

\* elapsed > timeout, for an elapsed time in ticks and a timeout in ms
Expired(elapsed, timeout) == elapsed * TickMs > timeout

\* A timer stops counting once it has expired
Advance(elapsed, timeout) == IF Expired(elapsed, timeout) THEN elapsed ELSE elapsed + 1

\* position of the first stop byte in rx, 0 if there is none
RECURSIVE StopAt(_, _)
StopAt(rx, i) ==
    IF i > Len(rx) THEN 0 ELSE IF rx[i] = PACKET_STOP THEN i ELSE StopAt(rx, i + 1)

(***************************************************************************)
(* What the device sends.                                                  *)
(***************************************************************************)
RECURSIVE Fields(_)
Fields(fs) == IF fs = <<>> THEN <<>> ELSE <<TAB>> \o Head(fs) \o Fields(Tail(fs))

Body(seq, category, fs) == NatText(seq) \o <<TAB>> \o category \o Fields(fs)

Sealed(body) ==
    LET n == ByteSum(body)
    IN  body \o (IF n < 16 THEN <<48>> ELSE <<>>) \o HexText(n)

Framed(payload) == <<PACKET_START_0, PACKET_START_1>> \o payload \o <<PACKET_STOP>>

s_dodo == <<100, 111, 100, 111>>
s_x == <<120>>
s_rate == <<51, 48, 46, 53>>

\* well-formed frames stamped seq
DeviceFramesAt(seq) ==
    { Framed(Sealed(Body(seq, s_ready, <<NatText(1500), s_dodo>>))),
      Framed(Sealed(Body(seq, s_ready, <<NatText(1500)>>))),
      Framed(Sealed(Body(seq, s_ready, <<>>))),
      Framed(Sealed(Body(seq, s_state, <<NatText(2500), <<49>>, <<49>>, <<49>>, s_rate>>))),
      Framed(Sealed(Body(seq, s_state, <<NatText(2600), <<49>>, <<48>>, <<48>>, s_rate>>))),
      Framed(Sealed(Body(seq, s_state, <<NatText(2700), <<48>>>>))),
      Framed(Sealed(Body(seq, s_state, <<NatText(2800), s_x, <<49>>, <<49>>, s_rate>>))),
      Framed(Sealed(Body(seq, s_enc, <<NatText(1600), <<49>>, <<50>>, s_rate, s_rate>>))) }

\* damaged frames and loose bytes
DeviceNoise ==
    { \* checksum characters that do not match
      Framed(Body(0, s_state, <<NatText(2500)>>) \o <<48, 48>>),
      \* checksum characters that are not hex digits
      Framed(Body(0, s_state, <<NatText(2500)>>) \o <<122, 122>>),
      \* fewer than 5 characters
      Framed(<<97, 98>>),
      \* the stop byte right after the start pair
      Framed(<<>>),
      \* a packet number that is not a number
      Framed(Sealed(s_x \o <<TAB>> \o s_state)),
      \* an empty category segment
      Framed(Sealed(NatText(0) \o <<TAB, TAB>> \o NatText(1500))),
      \* a frame whose stop byte has not been sent
      <<PACKET_START_0, PACKET_START_1>> \o Body(0, s_state, <<>>),
      \* the stop byte alone
      <<PACKET_STOP>>,
      \* a start byte ahead of a start pair
      <<PACKET_START_0, PACKET_START_0, PACKET_START_1>>,
      \* a banner line
      <<104, 105, PACKET_STOP>> }

DeviceChunks == DeviceNoise \cup UNION { DeviceFramesAt(seq) : seq \in 0..MaxSeq }

(***************************************************************************)
(* Initial state: the object as the constructor leaves it.                 *)
(***************************************************************************)
NoCall == [how |-> "none", pre |-> Wide(0), frame |-> <<>>, seq |-> <<>>,
           category |-> <<>>]

NoCmd == [kind |-> "none", is_ready |-> FALSE, is_active |-> FALSE,
          motors_active |-> FALSE, wrote |-> FALSE, n |-> 0, len |-> 0]

Init ==
    /\ pc = "constructed"
    /\ caller = "none"
    /\ rosOk = TRUE
    /\ exit_code = 0
    /\ portOpen = FALSE
    /\ handshake = "none"
    /\ serialIn = <<>>
    /\ serialOut = <<>>
    /\ tok = [buf |-> <<>>, idx |-> 0, seg |-> <<>>, num |-> 0 - 1]
    /\ recvCharBuffer = <<>>
    /\ readPacketNum = Wide(0)
    /\ writePacketNum = 0
    /\ readyState = [robot_name |-> <<>>, is_ready |-> FALSE, time_ms |-> Wide(0)]
    /\ robotState = [time_ms |-> Wide(0), is_active |-> FALSE, battery_ok |-> FALSE,
                     motors_active |-> FALSE, loop_rate |-> Float("num", FALSE, 0, 0)]
    /\ clock = [offsetTimeMs |-> Wide(0), refSet |-> FALSE]
    /\ published = [cats |-> {}, early |-> FALSE]
    /\ since_begin = 0
    /\ since_write = 0
    /\ since_wait = 0
    /\ c2 = 0
    /\ last = NoCall
    /\ writeCalls = 0
    /\ lastCmd = NoCmd
    /\ sends = 0
    /\ cmds = 0

decodeVars == <<tok, readyState, robotState, clock, published>>
writeVars == <<serialOut, writePacketNum, writeCalls>>
timerVars == <<since_begin, since_write, since_wait>>
boundVars == <<sends, cmds>>

\* the write state w becomes the state of the object
Commit(w) ==
    /\ serialOut' = w.out
    /\ writePacketNum' = w.n
    /\ writeCalls' = w.calls

(***************************************************************************)
(* run() up to the first probe: setup(), configure(), and checkReady() to  *)
(* the sleep that ends its first writeSerial (105, 393).  Every writeSerial*)
(* that has written sleeps 0.5 ms before it returns: the thread is then in *)
(* a state of its own, in which the device and the shutdown signal can act.*)
(***************************************************************************)
\* the thread sleeps in the writeSerial of coefficient i - 1 of writeK; the
\* write of coefficient i comes next
KsSleep == <<"ks1", "ks2", "ks3", "ks4", "ks5", "ks6", "ks7">>

Run ==
    /\ pc = "constructed"
    /\ \E opened \in BOOLEAN, o \in TxOutcomes(TRUE) :
          LET w == writeSerial(WriteState, s_probe, <<ArgS(s_dodobot)>>, o)
          IN  IF ~opened
              THEN /\ pc' = "crashed"
                   /\ UNCHANGED <<portOpen, handshake, caller, writeVars>>
              ELSE /\ portOpen' = TRUE
                   /\ caller' = "checkReady"
                   /\ Commit(w)
                   /\ pc' = IF w.thrown THEN "crashed" ELSE "sleep_probe"
                   /\ handshake' = IF w.thrown THEN "io_error" ELSE "probing"
    /\ since_begin' = 0
    /\ since_write' = 0
    /\ UNCHANGED <<rosOk, exit_code, serialIn, decodeVars, recvCharBuffer,
                   readPacketNum, since_wait, c2, last, lastCmd, boundVars>>

\* readSerial is entered: waitForPacketStart takes wait_time
EnterReadSerial ==
    /\ pc' = "wait"
    /\ since_wait' = 0
    /\ c2' \in C2Garbage
    /\ last' = [NoCall EXCEPT !.how = "running", !.pre = readPacketNum]

(***************************************************************************)
(* One iteration of checkReady's loop that does something: the timeout,    *)
(* the retransmission as far as the sleep that ends it, or, with no        *)
(* retransmission due, the call of readSerial.                             *)
(***************************************************************************)
CheckReadyIter ==
    /\ pc = "cr_loop"
    /\ ~readyState.is_ready
    /\ rosOk
    /\ \/ Expired(since_begin, general_timeout)
       \/ Expired(since_write, write_timeout)
       \/ Len(serialIn) > 2
    /\ IF Expired(since_begin, general_timeout)
       THEN /\ pc' = "crashed"
            /\ handshake' = "timed_out"
            /\ UNCHANGED <<writeVars, since_wait, c2, last>>
       ELSE IF Expired(since_write, write_timeout)
       THEN \E o \in TxOutcomes(portOpen) :
               LET w == writeSerial(WriteState, s_probe, <<ArgS(s_dodobot)>>, o)
               IN  /\ Commit(w)
                   /\ pc' = IF w.thrown THEN "crashed" ELSE "sleep_reprobe"
                   /\ handshake' = IF w.thrown THEN "io_error" ELSE handshake
                   /\ UNCHANGED <<since_wait, c2, last>>
       ELSE /\ EnterReadSerial
            /\ UNCHANGED <<handshake, writeVars>>
    /\ UNCHANGED <<caller, rosOk, exit_code, portOpen, serialIn, decodeVars,
                   recvCharBuffer, readPacketNum, since_begin, since_write,
                   lastCmd, boundVars>>

\* the first probe's writeSerial returns: the while of checkReady is reached
CheckReadyEnter ==
    /\ pc = "sleep_probe"
    /\ pc' = "cr_loop"
    /\ UNCHANGED <<caller, rosOk, exit_code, portOpen, handshake, serialIn,
                   writeVars, decodeVars, recvCharBuffer, readPacketNum,
                   timerVars, c2, last, lastCmd, boundVars>>

\* the re-probe's writeSerial returns: write_time is taken (117) and the
\* input is looked at (120-122)
CheckReadyReprobed ==
    /\ pc = "sleep_reprobe"
    /\ since_write' = 0
    /\ IF Len(serialIn) > 2
       THEN EnterReadSerial
       ELSE /\ pc' = "cr_loop"
            /\ UNCHANGED <<since_wait, c2, last>>
    /\ UNCHANGED <<caller, rosOk, exit_code, portOpen, handshake, serialIn,
                   writeVars, decodeVars, recvCharBuffer, readPacketNum,
                   since_begin, lastCmd, boundVars>>

(***************************************************************************)
(* checkReady leaves its loop (ready, or ros::ok() false) and setup() goes *)
(* on: setStartTime when ready, then setActive(true) and, after its sleep, *)
(* setReporting(true).  After that sleep run() tests ros::ok() for the     *)
(* first time: it enters its loop, or goes to stop().                      *)
(***************************************************************************)
CheckReadyExit ==
    /\ pc = "cr_loop"
    /\ readyState.is_ready \/ ~rosOk
    /\ clock' = IF readyState.is_ready
                THEN [offsetTimeMs |-> readyState.time_ms, refSet |-> TRUE]
                ELSE clock
    /\ \E o \in TxOutcomes(portOpen) :
          LET w == setActive(WriteState, TRUE, o)
          IN  /\ Commit(w)
              /\ pc' = IF w.thrown THEN "crashed" ELSE "sleep_active"
    /\ handshake' = IF readyState.is_ready THEN "ready" ELSE "cancelled"
    /\ caller' = "loop"
    /\ since_begin' = 0
    /\ since_write' = 0
    /\ UNCHANGED <<rosOk, exit_code, portOpen, serialIn, tok, readyState,
                   robotState, published, recvCharBuffer, readPacketNum,
                   since_wait, c2, last, lastCmd, boundVars>>

\* setActive has returned: setup() calls setReporting(true) (405)
SetupReporting ==
    /\ pc = "sleep_active"
    /\ \E o \in TxOutcomes(portOpen) :
          LET w == setReporting(WriteState, TRUE, o)
          IN  /\ Commit(w)
              /\ pc' = IF w.thrown THEN "crashed" ELSE "sleep_reporting"
    /\ UNCHANGED <<caller, rosOk, exit_code, portOpen, handshake, serialIn,
                   decodeVars, recvCharBuffer, readPacketNum, timerVars, c2,
                   last, lastCmd, boundVars>>

(***************************************************************************)
(* run()'s loop.  pc = "run_loop": the thread is in the body of the while, *)
(* in ros::spinOnce() and clock_rate.sleep().  loop() is called after the  *)
(* sleep whatever ros::ok() has become; ros::ok() is tested when loop()    *)
(* has returned.                                                           *)
(***************************************************************************)
\* stop(), reached from the while test of run()
stop ==
    /\ pc' = "stopped"
    /\ portOpen' = FALSE

\* setup() has returned: the first test of run()'s while (436)
RunWhile ==
    /\ pc = "sleep_reporting"
    /\ IF rosOk THEN pc' = "run_loop" /\ UNCHANGED portOpen ELSE stop
    /\ UNCHANGED <<caller, rosOk, exit_code, handshake, serialIn, writeVars,
                   decodeVars, recvCharBuffer, readPacketNum, timerVars, c2,
                   last, lastCmd, boundVars>>

\* loop() finds at most 2 bytes and returns; ros::ok() is false
RunStop ==
    /\ pc = "run_loop"
    /\ ~rosOk
    /\ Len(serialIn) <= 2
    /\ stop
    /\ UNCHANGED <<caller, rosOk, exit_code, handshake, serialIn, writeVars,
                   decodeVars, recvCharBuffer, readPacketNum, timerVars, c2,
                   last, lastCmd, boundVars>>

\* loop() finds more than 2 bytes
Loop ==
    /\ pc = "run_loop"
    /\ Len(serialIn) > 2
    /\ pc' = "loop_while"
    /\ UNCHANGED <<caller, rosOk, exit_code, portOpen, handshake, serialIn,
                   writeVars, decodeVars, recvCharBuffer, readPacketNum,
                   timerVars, c2, last, lastCmd, boundVars>>

\* the inner while of loop(): another readSerial, or loop() returns and
\* run() tests ros::ok()
LoopWhile ==
    /\ pc = "loop_while"
    /\ IF Len(serialIn) > 0
       THEN /\ EnterReadSerial
            /\ UNCHANGED portOpen
       ELSE /\ IF rosOk THEN pc' = "run_loop" /\ UNCHANGED portOpen ELSE stop
            /\ UNCHANGED <<since_wait, c2, last>>
    /\ UNCHANGED <<caller, rosOk, exit_code, handshake, serialIn,
                   writeVars, decodeVars, recvCharBuffer, readPacketNum,
                   since_begin, since_write, lastCmd, boundVars>>

(***************************************************************************)
(* readSerial.                                                             *)
(***************************************************************************)
\* readSerial returns to its caller (both callers drop the result)
Return ==
    /\ pc' = IF caller = "checkReady" THEN "cr_loop" ELSE "loop_while"
    /\ since_wait' = 0
    /\ c2' = 0
    /\ UNCHANGED <<exit_code, portOpen, handshake>>

\* an exception leaves readSerial: out of checkReady, setup and run, or into
\* the handler around loop()
Escape ==
    /\ since_wait' = 0
    /\ c2' = 0
    /\ IF caller = "checkReady"
       THEN /\ pc' = "crashed"
            /\ handshake' = "exception"
            /\ UNCHANGED <<exit_code, portOpen>>
       ELSE /\ pc' = "stopped"
            /\ exit_code' = 1
            /\ portOpen' = FALSE
            /\ UNCHANGED handshake

\* waitForPacketStart reads the bytes that are there
WaitScan ==
    /\ pc = "wait"
    /\ ~Expired(since_wait, wait_timeout)
    /\ Len(serialIn) >= 2
    /\ LET r == Scan(serialIn, c2)
       IN  /\ serialIn' = r.rest
           /\ IF r.res = "start"
              THEN /\ pc' = "recv"
                   /\ recvCharBuffer' = <<>>
                   /\ since_wait' = 0
                   /\ c2' = 0
                   /\ UNCHANGED <<last, exit_code, portOpen, handshake>>
              ELSE IF r.res = "false"
              THEN /\ Return
                   /\ last' = [last EXCEPT !.how = "nostart"]
                   /\ UNCHANGED recvCharBuffer
              ELSE /\ c2' = r.c2
                   /\ UNCHANGED <<pc, since_wait, last, recvCharBuffer, exit_code,
                                  portOpen, handshake>>
    /\ UNCHANGED <<caller, rosOk, writeVars, decodeVars, readPacketNum,
                   since_begin, since_write, lastCmd, boundVars>>

\* waitForPacketStart gives up after wait_timeout
WaitTimeout ==
    /\ pc = "wait"
    /\ Expired(since_wait, wait_timeout)
    /\ Return
    /\ last' = [last EXCEPT !.how = "nostart"]
    /\ UNCHANGED <<caller, rosOk, serialIn, writeVars, decodeVars, recvCharBuffer,
                   readPacketNum, since_begin, since_write, lastCmd, boundVars>>

\* the accumulation loop stores the bytes that are there; no stop byte yet
RecvBytes ==
    /\ pc = "recv"
    /\ serialIn # <<>>
    /\ StopAt(serialIn, 1) = 0
    /\ recvCharBuffer' = recvCharBuffer \o serialIn
    /\ serialIn' = <<>>
    /\ UNCHANGED <<pc, caller, rosOk, exit_code, portOpen, handshake, writeVars,
                   decodeVars, readPacketNum, timerVars, c2, last, lastCmd,
                   boundVars>>

\* the stop byte is read: the frame is validated and dispatched
RecvFrame ==
    /\ pc = "recv"
    /\ StopAt(serialIn, 1) > 0
    /\ LET at == StopAt(serialIn, 1)
           recv == recvCharBuffer \o SubSeq(serialIn, 1, at - 1)
           d == [tok |-> tok, readyState |-> readyState, robotState |-> robotState,
                 clock |-> clock, published |-> published]
       IN  \E v \in {Validate(d, recv, readPacketNum)} :
               /\ serialIn' = SubSeq(serialIn, at + 1, Len(serialIn))
               /\ recvCharBuffer' = recv
               /\ tok' = v.d.tok
               /\ readyState' = v.d.readyState
               /\ robotState' = v.d.robotState
               /\ clock' = v.d.clock
               /\ published' = v.d.published
               /\ readPacketNum' = v.n
               /\ last' = [how |-> v.how, pre |-> readPacketNum, frame |-> CString(recv),
                           seq |-> v.seq, category |-> v.category]
               /\ IF v.how = "seq_throw" THEN Escape ELSE Return
    /\ UNCHANGED <<caller, rosOk, writeVars, since_begin, since_write, lastCmd,
                   boundVars>>

(***************************************************************************)
(* Time passes, and the environment acts, while the thread polls with      *)
(* nothing to do or sleeps.                                                *)
(***************************************************************************)
Polling ==
    \/ /\ pc = "cr_loop"
       /\ ~readyState.is_ready
       /\ rosOk
       /\ ~Expired(since_begin, general_timeout)
       /\ ~Expired(since_write, write_timeout)
       /\ Len(serialIn) <= 2
    \/ /\ pc = "wait"
       /\ ~Expired(since_wait, wait_timeout)
       /\ Len(serialIn) < 2
    \/ /\ pc = "recv"
       /\ serialIn = <<>>

Tick ==
    /\ Polling
    /\ since_begin' = IF caller = "checkReady"
                      THEN Advance(since_begin, general_timeout) ELSE since_begin
    /\ since_write' = IF caller = "checkReady"
                      THEN Advance(since_write, write_timeout) ELSE since_write
    /\ since_wait' = IF pc = "wait" THEN Advance(since_wait, wait_timeout)
                     ELSE since_wait
    /\ timerVars' # timerVars
    /\ UNCHANGED <<pc, caller, rosOk, exit_code, portOpen, handshake, serialIn,
                   writeVars, decodeVars, recvCharBuffer, readPacketNum, c2, last,
                   lastCmd, boundVars>>

(***************************************************************************)
(* The environment: the device, the shutdown signal, the outward callers.  *)
(***************************************************************************)
\* the thread sleeps: in clock_rate.sleep() of run()'s loop, or in the sleep
\* that ends a writeSerial
Sleeping ==
    pc \in {"run_loop", "sleep_probe", "sleep_reprobe", "sleep_active",
            "sleep_reporting"} \cup {KsSleep[i] : i \in 1..7}

DeviceSend ==
    /\ portOpen
    /\ Polling \/ Sleeping
    /\ sends < MaxSends
    /\ \E chunk \in DeviceChunks :
          /\ Len(serialIn) + Len(chunk) <= MaxRx
          /\ serialIn' = serialIn \o chunk
    /\ sends' = sends + 1
    /\ UNCHANGED <<pc, caller, rosOk, exit_code, portOpen, handshake, writeVars,
                   decodeVars, recvCharBuffer, readPacketNum, timerVars, c2, last,
                   lastCmd, cmds>>

RosShutdown ==
    /\ rosOk
    /\ Polling \/ Sleeping
    /\ rosOk' = FALSE
    /\ UNCHANGED <<pc, caller, exit_code, portOpen, handshake, serialIn, writeVars,
                   decodeVars, recvCharBuffer, readPacketNum, timerVars, c2, last,
                   lastCmd, boundVars>>

\* A callback can run when the thread is in ros::spinOnce(), or be called on
\* the constructed object before run().
CanCall == cmds < MaxCmds /\ (pc = "constructed" \/ (pc = "run_loop" /\ rosOk))

\* a callback ran as far as its return, or as far as the sleep of a write
\* that is not its last: it left the write state w and the thread at next
Called(kind, w, next) ==
    /\ Commit(w)
    /\ lastCmd' = [kind |-> kind, is_ready |-> readyState.is_ready,
                    is_active |-> robotState.is_active,
                    motors_active |-> robotState.motors_active,
                    wrote |-> w.calls # writeCalls,
                    n |-> writePacketNum, len |-> Len(serialOut)]
    /\ cmds' = cmds + 1
    /\ pc' = IF w.thrown THEN "crashed" ELSE next
    /\ UNCHANGED <<caller, rosOk, exit_code, portOpen, handshake, serialIn,
                   decodeVars, recvCharBuffer, readPacketNum, timerVars, c2, last,
                   sends>>

driveCallback ==
    /\ CanCall
    /\ \E a \in {15000, 0 - 2500}, o \in TxOutcomes(portOpen) :
          Called("drive", writeDriveChassis(WriteState, a, 0, o), pc)

tilterCallback ==
    /\ CanCall
    /\ \E command \in {0, 3}, o \in TxOutcomes(portOpen) :
          Called("tilter", writeTilter(WriteState, command, 7, o), pc)

gripperCallback ==
    /\ CanCall
    /\ \E command \in {0, 1}, o \in TxOutcomes(portOpen) :
          Called("gripper", writeGripper(WriteState, command, 9, o), pc)

linearCallback ==
    /\ CanCall
    /\ \E o \in TxOutcomes(portOpen) : Called("linear", writeLinear(WriteState, o), pc)

Gains == <<10000, 0, 100, 10000, 0, 100, 5000, 5000>>

pidService ==
    /\ CanCall
    /\ \E o \in TxOutcomes(portOpen) :
          LET w == set_pid(WriteState, Gains, o)
          IN  Called("pid", w, IF w.calls = writeCalls THEN pc ELSE KsSleep[1])

\* writeKNext that returns before the last coefficient
writeKNext_SevenWrites ==
    /\ \E i \in 1..7, o \in TxOutcomes(portOpen) :
          /\ pc = KsSleep[i]
          /\ LET w == writeSerial(WriteState, s_ks, <<ArgD(i), ArgF(Gains[i + 1])>>, o)
             IN  /\ Commit(w)
                 /\ pc' = IF w.thrown THEN "crashed"
                          ELSE IF i < 6 THEN KsSleep[i + 1] ELSE "run_loop"
    /\ UNCHANGED <<caller, rosOk, exit_code, portOpen, handshake, serialIn,
                   decodeVars, recvCharBuffer, readPacketNum, timerVars, c2,
                   last, lastCmd, boundVars>>

\* writeK goes on after a sleep: the write of coefficient i (570-576); after
\* the last one set_pid returns into ros::spinOnce()
writeKNext ==
    /\ \E i \in 1..7, o \in TxOutcomes(portOpen) :
          /\ pc = KsSleep[i]
          /\ LET w == writeSerial(WriteState, s_ks, <<ArgD(i), ArgF(Gains[i + 1])>>, o)
             IN  /\ Commit(w)
                 /\ pc' = IF w.thrown THEN "crashed"
                          ELSE IF i < 7 THEN KsSleep[i + 1] ELSE "run_loop"
    /\ UNCHANGED <<caller, rosOk, exit_code, portOpen, handshake, serialIn,
                   decodeVars, recvCharBuffer, readPacketNum, timerVars, c2,
                   last, lastCmd, boundVars>>

Next ==
    \/ Run
    \/ CheckReadyEnter
    \/ CheckReadyIter
    \/ CheckReadyReprobed
    \/ CheckReadyExit
    \/ SetupReporting
    \/ RunWhile
    \/ RunStop
    \/ Loop
    \/ LoopWhile
    \/ WaitScan
    \/ WaitTimeout
    \/ RecvBytes
    \/ RecvFrame
    \/ Tick
    \/ DeviceSend
    \/ RosShutdown
    \/ driveCallback
    \/ tilterCallback
    \/ gripperCallback
    \/ linearCallback
    \/ pidService
    \/ writeKNext

Spec == Init /\ [][Next]_vars

(***************************************************************************)
(* Loop-back harness for the encoder and the receive pipeline: on an       *)
(* object whose port is open, one writeSerial call whose bytes are fed     *)
(* back to readSerial.                                                     *)
(***************************************************************************)
ArgU(v) == [tag |-> "u", num |-> v, text |-> <<>>]

LoopbackArgs ==
    { <<>>,
      <<ArgD(5)>>,
      <<ArgD(0 - 3)>>,
      <<ArgU(7)>>,
      <<ArgS(s_dodobot)>>,
      <<ArgF(15000)>>,
      <<ArgD(1), ArgF(0 - 2500)>>,
      <<ArgS(s_dodo), ArgU(0)>> }

LoopbackInit ==
    /\ pc = "loopback"
    /\ caller = "loop"
    /\ rosOk = TRUE
    /\ exit_code = 0
    /\ portOpen = TRUE
    /\ handshake = "none"
    /\ serialIn = <<>>
    /\ serialOut = <<>>
    /\ tok = [buf |-> <<>>, idx |-> 0, seg |-> <<>>, num |-> 0 - 1]
    /\ recvCharBuffer = <<>>
    /\ writePacketNum \in 0..(MaxSeq + 1)
    /\ readPacketNum \in {Wide(0), Wide(writePacketNum)}
    /\ readyState = [robot_name |-> <<>>, is_ready |-> FALSE, time_ms |-> Wide(0)]
    /\ robotState = [time_ms |-> Wide(0), is_active |-> FALSE, battery_ok |-> FALSE,
                     motors_active |-> FALSE, loop_rate |-> Float("num", FALSE, 0, 0)]
    /\ clock = [offsetTimeMs |-> Wide(0), refSet |-> FALSE]
    /\ published = [cats |-> {}, early |-> FALSE]
    /\ since_begin = 0
    /\ since_write = 0
    /\ since_wait = 0
    /\ c2 = 0
    /\ last = NoCall
    /\ writeCalls = writePacketNum
    /\ \E name \in {s_drive, s_ks, s_x}, args \in LoopbackArgs :
          lastCmd = [kind |-> "loopback", name |-> name, args |-> args,
                     stamped |-> writePacketNum]
    /\ sends = 0
    /\ cmds = 0

LoopbackWrite ==
    /\ pc = "loopback"
    /\ LET w == writeSerial(WriteState, lastCmd.name, lastCmd.args, "ok")
       IN  /\ Commit(w)
           /\ serialIn' = serialIn \o w.out[Len(w.out)]
    /\ pc' = "loop_while"
    /\ UNCHANGED <<caller, rosOk, exit_code, portOpen, handshake, decodeVars,
                   recvCharBuffer, readPacketNum, timerVars, c2, last, lastCmd,
                   boundVars>>

LoopbackNext == LoopbackWrite \/ LoopWhile \/ WaitScan \/ RecvFrame

LoopbackSpec == LoopbackInit /\ [][LoopbackNext]_vars

\* all the segments of a buffer, as successive getNextSegment calls give them
RECURSIVE SegmentsFrom(_)
SegmentsFrom(t) ==
    LET g == getNextSegment(t)
    IN  IF ~g.ok THEN <<>> ELSE <<g.t.seg>> \o SegmentsFrom(g.t)

Segments(buffer) == SegmentsFrom([buf |-> buffer, idx |-> 0, seg |-> <<>>, num |-> 0 - 1])

ArgTexts(args) == [i \in 1..Len(args) |-> ArgText(args[i])]

\* the last readSerial call read a whole frame
GotFrame == last.how \notin {"none", "running", "nostart"}

(***************************************************************************)
(* Claims.                                                                 *)
(***************************************************************************)

\* C1: checkReady ends ready when a ready frame was accepted and with
\* ReadyTimeoutException otherwise (unless ros::ok() went false or the serial
\* write failed), whatever the device sent; and it is never still probing,
\* inside readSerial, once the budget has elapsed.
C1_HandshakeEnds ==
    /\ handshake \notin {"none", "probing", "cancelled", "io_error"}
          => /\ handshake \in {"ready", "timed_out"}
             /\ (handshake = "ready") = readyState.is_ready
    /\ ~(handshake = "probing" /\ pc = "recv"
            /\ Expired(since_begin, general_timeout))

\* C2: after readSerial has returned from a checksum-valid frame whose
\* sequence number N differs from the expected one, the read counter is N + 1.
C2_ResyncNextExpected ==
    (last.how \in {"nocat", "dispatch_throw", "done"} /\ last.seq # last.pre)
        => readPacketNum = Incr(last.seq)

\* C3: a frame that passes validation with the expected sequence number
\* advances the read counter by exactly one, also when the dispatch throws.
C3_AcceptedFrameAdvances ==
    (last.how \in {"dispatch_throw", "done"} /\ last.seq = last.pre)
        => readPacketNum = Incr(last.pre)

\* the checksum test of readSerial: std::stoul parses the last two characters
\* in base 16, and the value is the sum modulo 256 of the characters before
\* them
ChecksumOK(frame) ==
    LET recv_checksum == StoulHex16(Substr(frame, Len(frame) - 2, 2))
    IN  /\ recv_checksum.ok
        /\ recv_checksum.val = ByteSum(SubSeq(frame, 1, Len(frame) - 2))

\* C4: a frame of at least 5 characters that fails the checksum rule is not
\* dispatched, and the read counter advances by exactly one.
C4_ChecksumReject ==
    (GotFrame /\ Len(last.frame) >= 5 /\ ~ChecksumOK(last.frame))
        => /\ last.how \notin {"dispatch_throw", "done"}
           /\ readPacketNum = Incr(last.pre)

\* C5: in run()'s loop no frame makes an exception leave readSerial, and the
\* exit code stays 0.
C5_LoopSurvivesFrames ==
    caller = "loop" => (last.how # "seq_throw" /\ exit_code = 0)

\* C6: the bytes of a writeSerial call, read back by readSerial, are
\* dispatched as one frame with the stamped sequence number, the command name
\* as category and the argument texts as the segments after it.
C6_RoundTrip ==
    (lastCmd.kind = "loopback" /\ last.how \notin {"none", "running"})
        => /\ last.how = "done"
           /\ last.seq = Wide(lastCmd.stamped)
           /\ last.category = lastCmd.name
           /\ Segments(tok.buf)
                 = <<NatText(lastCmd.stamped), lastCmd.name>> \o ArgTexts(lastCmd.args)

\* C7: the write counter equals the number of writeSerial calls made so far
\* (it starts at 0 and every call adds one, failed transmissions included).
C7_WriteCounterCountsCalls == writePacketNum = writeCalls

\* the probe packets written, each with the stamp of its place
ProbesSent ==
    Cardinality({i \in DOMAIN serialOut :
                    serialOut[i] = Packet(i - 1, s_probe, <<ArgS(s_dodobot)>>)})

\* C8: when checkReady reports the timeout it has transmitted exactly 5
\* probes.
C8_FiveProbes == handshake = "timed_out" => ProbesSent = 5

\* C9: a drive, tilter or gripper command issued while readiness is not
\* reached, or the device is not active, or its motors are not active, does
\* not call writeSerial: nothing is transmitted and the write counter stays.
C9_MotorCommandsGuarded ==
    (lastCmd.kind \in {"drive", "tilter", "gripper"}
        /\ ~(lastCmd.is_ready /\ lastCmd.is_active /\ lastCmd.motors_active))
        => ~lastCmd.wrote

\* a motor command was dropped after the handshake and a state frame that
\* reported the device active and its motors inactive
C9_Witness ==
    /\ lastCmd.kind \in {"drive", "tilter", "gripper"}
    /\ lastCmd.is_ready
    /\ lastCmd.is_active
    /\ ~lastCmd.motors_active
    /\ ~lastCmd.wrote
    /\ Len(serialOut) = 3

\* C10: is_ready starts false, turns true only in a readSerial call that
\* dispatches a ready frame with its device-ms and name segments, and never
\* turns false again.
C10_ReadinessMonotone ==
    /\ ~readyState.is_ready
    /\ [][/\ readyState.is_ready => readyState'.is_ready
          /\ (~readyState.is_ready /\ readyState'.is_ready)
                => /\ last'.how = "done"
                   /\ last'.category = s_ready
                   /\ Len(Segments(Substr(last'.frame, 0, Len(last'.frame) - 2))) >= 4]_vars

\* readiness survived a later frame whose dispatch threw
C10_Witness ==
    /\ readyState.is_ready
    /\ last.how = "dispatch_throw"
    /\ last.category = s_state

\* C11: no enc, bump, fsr, grip, linear, batt or tilt frame has its device
\* timestamp converted by getDeviceTime before setStartTime has set the clock
\* reference.
C11_ReferenceBeforeDecode == ~published.early

\* C12: a readSerial call that reads a frame of fewer than 5 characters (the
\* empty frame included) returns false without dispatching, changes neither
\* the readiness state nor the operational state nor what is published, and
\* advances the read counter by exactly one.
C12_ShortFrameRejected ==
    [][(pc = "recv" /\ pc' # "recv" /\ Len(recvCharBuffer') < 5)
          => /\ last'.how = "short"
             /\ readyState' = readyState
             /\ robotState' = robotState
             /\ published' = published
             /\ clock' = clock
             /\ readPacketNum' = Incr(readPacketNum)]_vars

\* the empty frame has been read and rejected, and took one sequence slot
C12_Witness ==
    /\ last.how = "short"
    /\ last.frame = <<>>
    /\ recvCharBuffer = <<>>
    /\ readPacketNum = Incr(last.pre)

(***************************************************************************)
(* The program with its scheduling: the thread keeps running in the loops  *)
(* of checkReady, run and loop and in readSerial (a step it can take there *)
(* is taken), the sleep that ends a write returns, and time keeps         *)
(* passing.  Nothing is assumed of the device, the shutdown signal or the  *)
(* outward callers.  For the steps that encode or decode a packet, and for *)
(* those that follow the sleep of a write, the fairness is stated on the   *)
(* step's control flow, which singles out the same steps of Next.          *)
(***************************************************************************)
\* a CheckReadyIter step, by what it does to pc and the count of writes
CheckReadyIterFlow ==
    /\ pc = "cr_loop"
    /\ ~readyState.is_ready
    /\ rosOk
    /\ \/ Expired(since_begin, general_timeout)
       \/ Expired(since_write, write_timeout)
       \/ Len(serialIn) > 2
    /\ pc' \in {"sleep_reprobe", "wait", "crashed"}
    /\ writeCalls' \in {writeCalls, writeCalls + 1}

\* a CheckReadyExit step, by what it does to pc
CheckReadyExitFlow ==
    /\ pc = "cr_loop"
    /\ readyState.is_ready \/ ~rosOk
    /\ pc' \in {"sleep_active", "crashed"}

\* a CheckReadyReprobed, SetupReporting or writeKNext step, by what it does
\* to pc: the sleep of the write before it has returned
WriteSleepFlow ==
    /\ pc \in {"sleep_reprobe", "sleep_active"} \cup {KsSleep[i] : i \in 1..7}
    /\ pc' \in ({"cr_loop", "wait", "sleep_reporting", "run_loop", "crashed"}
                  \cup {KsSleep[i] : i \in 2..7}) \ {pc}

\* a RecvFrame step, by what it does to pc
RecvFrameFlow ==
    /\ pc = "recv"
    /\ StopAt(serialIn, 1) > 0
    /\ pc' \in {"cr_loop", "loop_while", "crashed", "stopped"}

ThreadStep ==
    \/ Run
    \/ CheckReadyEnter
    \/ RunWhile
    \/ RunStop
    \/ Loop
    \/ LoopWhile
    \/ WaitScan
    \/ WaitTimeout
    \/ RecvBytes

FairSpec ==
    /\ Spec
    /\ WF_vars(ThreadStep)
    /\ WF_<<pc, writeCalls>>(CheckReadyIterFlow)
    /\ WF_pc(CheckReadyExitFlow)
    /\ WF_pc(WriteSleepFlow)
    /\ WF_pc(RecvFrameFlow)
    /\ WF_vars(Tick)

\* C13: every readSerial call returns (or is left by an exception), whatever
\* the device sends or does not send.
C13_ReadSerialReturns ==
    [](pc \in {"wait", "recv"} => <>(pc \notin {"wait", "recv"}))

(***************************************************************************)
(* Receiver harness: loop()'s drain on an object whose port is open, over  *)
(* an input of noise bytes followed by one frame.  The device sends        *)
(* nothing more.                                                           *)
(***************************************************************************)
\* noise: byte sequences that hold no start pair
ReceiverNoise ==
    { <<>>,
      <<104, 105>>,
      <<104, 105, PACKET_STOP>>,
      <<PACKET_STOP>>,
      <<PACKET_START_1>>,
      <<PACKET_START_0>>,
      <<104, PACKET_START_0>>,
      <<PACKET_START_0, 104>>,
      <<PACKET_START_0, PACKET_START_0>>,
      <<PACKET_START_1, PACKET_START_0>> }

\* payloads: a state frame, a frame of two characters, the empty frame
ReceiverPayloads ==
    { Sealed(Body(0, s_state, <<NatText(2500), <<49>>, <<49>>, <<49>>, s_rate>>)),
      <<97, 98>>,
      <<>> }

ReceiverInit ==
    /\ pc = "loop_while"
    /\ caller = "loop"
    /\ rosOk = TRUE
    /\ exit_code = 0
    /\ portOpen = TRUE
    /\ handshake = "none"
    /\ \E noise \in ReceiverNoise, payload \in ReceiverPayloads :
          /\ serialIn = noise \o Framed(payload)
          /\ lastCmd = [kind |-> "receive", noise |-> noise, payload |-> payload]
    /\ serialOut = <<>>
    /\ tok = [buf |-> <<>>, idx |-> 0, seg |-> <<>>, num |-> 0 - 1]
    /\ recvCharBuffer = <<>>
    /\ writePacketNum = 0
    /\ readPacketNum = Wide(0)
    /\ readyState = [robot_name |-> <<>>, is_ready |-> FALSE, time_ms |-> Wide(0)]
    /\ robotState = [time_ms |-> Wide(0), is_active |-> FALSE, battery_ok |-> FALSE,
                     motors_active |-> FALSE, loop_rate |-> Float("num", FALSE, 0, 0)]
    /\ clock = [offsetTimeMs |-> Wide(0), refSet |-> FALSE]
    /\ published = [cats |-> {}, early |-> FALSE]
    /\ since_begin = 0
    /\ since_write = 0
    /\ since_wait = 0
    /\ c2 = 0
    /\ last = NoCall
    /\ writeCalls = 0
    /\ sends = 0
    /\ cmds = 0

ReceiverNext ==
    \/ LoopWhile
    \/ WaitScan
    \/ WaitTimeout
    \/ RecvFrame
    \/ Tick

ReceiverSpec == ReceiverInit /\ [][ReceiverNext]_vars

\* the step in which waitForPacketStart returns true consumed the input up
\* to and including a first-marker byte immediately followed by the
\* second-marker byte
BeganOnPair ==
    \E k \in 2..Len(serialIn) :
        /\ serialIn[k - 1] = PACKET_START_0
        /\ serialIn[k] = PACKET_START_1
        /\ serialIn' = SubSeq(serialIn, k + 1, Len(serialIn))

\* the frame is still whole at the end of the input
FrameIntact ==
    LET frame == Framed(lastCmd.payload)
        n == Len(serialIn)
    IN  /\ n >= Len(frame)
        /\ SubSeq(serialIn, n - Len(frame) + 1, n) = frame

\* the start pair has been taken and the payload is what the accumulation
\* loop is about to read
FrameBegun ==
    /\ pc = "recv"
    /\ recvCharBuffer \o serialIn = lastCmd.payload \o <<PACKET_STOP>>

\* a readSerial call has accumulated the payload
FrameRead == GotFrame /\ recvCharBuffer = lastCmd.payload /\ serialIn = <<>>

\* C14: over the successive readSerial calls on noise followed by one frame,
\* the frame is not lost: it is still whole in the input, or its start pair
\* has been found and its payload is being accumulated, or exactly its
\* payload has been accumulated; and accumulation begins only on a
\* first-marker byte immediately followed by the second-marker byte.
C14_NoFrameLostToNoise ==
    /\ [](FrameIntact \/ FrameBegun \/ FrameRead)
    /\ [][(pc = "wait" /\ pc' = "recv") => BeganOnPair]_vars

\* C15: every waitForPacketStart call returns; it returns true only on a
\* first-marker byte immediately followed by the second-marker byte, so never
\* on a stream without a start pair; and once its wait window has elapsed
\* its next step is to return "no frame yet".
C15_StartSearchBounded ==
    /\ [](pc = "wait" => <>(pc # "wait"))
    /\ [][(pc = "wait" /\ pc' = "recv") => BeganOnPair]_vars
    /\ [][(pc = "wait" /\ Expired(since_wait, wait_timeout))
             => (pc' \notin {"wait", "recv"} /\ last'.how = "nostart")]_vars

\* waitForPacketStart has given up on a single pending byte that is not a
\* start pair (the second-marker byte left over from noise)
C15_Witness ==
    /\ last.how = "nostart"
    /\ pc \in {"cr_loop", "loop_while"}
    /\ serialIn = <<PACKET_START_1>>

\* the eight ks frames of a PID request whose first frame is stamped n
KsFrames(n) ==
    [i \in 1..8 |-> Packet(n + i - 1, s_ks, <<ArgD(i - 1), ArgF(Gains[i])>>)]

FrameSegments(call) == Segments(Substr(call.frame, 0, Len(call.frame) - 2))

\* C17: a state or ready frame that is dispatched and lacks a required
\* segment leaves the operational state and the readiness state unchanged.
C17_NoPartialUpdate ==
    [][(/\ pc = "recv"
        /\ last'.how = "done"
        /\ last'.category \in {s_state, s_ready}
        /\ Len(FrameSegments(last')) < 2 + Len(FieldKinds(last'.category)))
          => (robotState' = robotState /\ readyState' = readyState)]_vars

\* C18: a frame that passes the length and checksum checks and has a packet
\* number, and whose second segment is absent or empty, is rejected as
\* category-missing: readSerial returns false without calling the dispatcher.
C18_EmptyCategoryRejected ==
    (/\ GotFrame
     /\ Len(last.frame) >= 5
     /\ ChecksumOK(last.frame)
     /\ last.how \notin {"noseq", "seq_throw"}
     /\ \/ Len(FrameSegments(last)) < 2
        \/ FrameSegments(last)[2] = <<>>)
        => last.how = "nocat"

\* C19: every drain of loop() ends, whatever is left in the input when the
\* device stops sending (a call that blocks in the accumulation loop of
\* readSerial, C13's case, set aside).
C19_DrainTerminates ==
    []((caller = "loop" /\ pc \in {"loop_while", "wait", "recv"})
           => <>(caller # "loop" \/ pc \notin {"loop_while", "wait"}))

\* a set-active or set-reporting frame has been transmitted
StartupFramesSent ==
    \E i \in DOMAIN serialOut :
        Segments(SubSeq(serialOut[i], 3, Len(serialOut[i]) - 3))[2]
            \in {s_setactive, s_setreporting}

\* C20: the set-active and set-reporting frames are transmitted only after
\* the handshake has reached ready: never when checkReady was left with
\* is_ready false.
C20_StartupAfterReady == StartupFramesSent => readyState.is_ready

\* C22: the segment ordinal is per frame: whenever readSerial is reading a new
\* frame (searching for its start pair or accumulating its bytes), the ordinal
\* _currentSegmentNum is "none consumed yet" (-1), so that the frame's first
\* segment gets ordinal 0, whatever the previous frame's segments were.
C22_OrdinalPerFrame == pc \in {"wait", "recv"} => tok.num = 0 - 1

(***************************************************************************)
(* The accumulation loop against the capacity of _recvCharBuffer: the      *)
(* device sends a start pair and then streams bytes for as long as the     *)
(* thread polls in readSerial.                                             *)
(***************************************************************************)
\* new char[0xfff]: the number of chars _recvCharBuffer holds
RecvCapacity == 4095

\* the longest run of bytes the device writes at once
StreamChunk == 64

\* how many chars past the end of the buffer the stream is followed
MaxOverrun == 2

\* k NUL bytes: message bytes, none of them the stop byte
Zeros(k) == [i \in 1..k |-> 0]

StreamInit ==
    /\ pc = "loop_while"
    /\ caller = "loop"
    /\ rosOk = TRUE
    /\ exit_code = 0
    /\ portOpen = TRUE
    /\ handshake = "none"
    /\ serialIn = <<PACKET_START_0, PACKET_START_1>>
    /\ serialOut = <<>>
    /\ tok = [buf |-> <<>>, idx |-> 0, seg |-> <<>>, num |-> 0 - 1]
    /\ recvCharBuffer = <<>>
    /\ writePacketNum = 0
    /\ readPacketNum = Wide(0)
    /\ readyState = [robot_name |-> <<>>, is_ready |-> FALSE, time_ms |-> Wide(0)]
    /\ robotState = [time_ms |-> Wide(0), is_active |-> FALSE, battery_ok |-> FALSE,
                     motors_active |-> FALSE, loop_rate |-> Float("num", FALSE, 0, 0)]
    /\ clock = [offsetTimeMs |-> Wide(0), refSet |-> FALSE]
    /\ published = [cats |-> {}, early |-> FALSE]
    /\ since_begin = 0
    /\ since_write = 0
    /\ since_wait = 0
    /\ c2 = 0
    /\ last = NoCall
    /\ writeCalls = 0
    /\ lastCmd = NoCmd
    /\ sends = 0
    /\ cmds = 0

\* the device writes message bytes, or the stop byte, while the accumulation
\* loop polls an empty port
StreamSend ==
    /\ pc = "recv"
    /\ serialIn = <<>>
    /\ Len(recvCharBuffer) < RecvCapacity + MaxOverrun
    /\ serialIn' \in {Zeros(1), Zeros(StreamChunk), <<PACKET_STOP>>}
    /\ UNCHANGED <<pc, caller, rosOk, exit_code, portOpen, handshake, writeVars,
                   decodeVars, recvCharBuffer, readPacketNum, timerVars, c2, last,
                   lastCmd, boundVars>>

\* the number of stores the accumulation loop makes for the bytes rx: one per
\* message byte, and the terminating NUL when the stop byte is among them
Stores(rx) == IF StopAt(rx, 1) = 0 THEN Len(rx) ELSE StopAt(rx, 1)

\* the loop stores at _recvCharIndex without comparing it to the capacity; a
\* store past the end of the array is undefined: either it lands in the heap
\* behind the array and the loop goes on (RecvBytes, RecvFrame), or the
\* process faults
RecvFault ==
    /\ pc = "recv"
    /\ serialIn # <<>>
    /\ Len(recvCharBuffer) + Stores(serialIn) > RecvCapacity
    /\ pc' = "fault"
    /\ UNCHANGED <<caller, rosOk, exit_code, portOpen, handshake, serialIn,
                   writeVars, decodeVars, recvCharBuffer, readPacketNum, timerVars,
                   c2, last, lastCmd, boundVars>>

StreamNext ==
    \/ LoopWhile
    \/ WaitScan
    \/ StreamSend
    \/ RecvBytes
    \/ RecvFrame
    \/ RecvFault

StreamSpec == StreamInit /\ [][StreamNext]_vars

\* C21: the receive write index stays inside the frame buffer: every store of
\* the accumulation loop is at an index below the capacity of _recvCharBuffer.
\* While the loop runs, the chars stored so far (indices 0 .. count-1) are at
\* most RecvCapacity; once the frame is terminated, the terminating NUL (at
\* index count) is inside too; and no store faults.
C21_RecvIndexInBuffer ==
    /\ pc # "fault"
    /\ (pc = "recv") => (Len(recvCharBuffer) <= RecvCapacity)
    /\ GotFrame => (Len(recvCharBuffer) < RecvCapacity)

====
